---- MODULE Spec2Model ----
(***************************************************************************)
(* Reconciliation engine of RoninBackEndExtension: app/sync_service.py     *)
(* (sync_folder_structure, sync_images_in_folder, sync_all_folders) and    *)
(* the dashboard triggers of app/api_dashboard.py, over the Folder and     *)
(* Image tables of app/models.py, the on-disk cache under static_images/   *)
(* and the remote Drive listing.                                           *)
(*                                                                         *)
(* A file name is a sequence of tokens, the last being its extension when  *)
(* it has one: "a.jpg" is <<"a", ".jpg">>, "b" is <<"b">>.                 *)
(***************************************************************************)
EXTENDS Integers, Sequences, FiniteSets, TLC

\* ------------------------------------------------------------ bounds
\* Remote-side edits the environment makes in one behaviour.
MaxRemoteEdits == 1
PageLen == 1
MaxImages == 2500

\* ------------------------------------------------------------ universe
Workers == {"w1", "w2"}
FolderIds == {"F1", "F2"}
ImageIds == {"X", "Y"}
FolderNames == {"cats_POST", "cats_STORY"}
FileNames == { <<"a", ".jpg">>, <<"b", ".jpg">>, <<"b">> }
Thumbs == {"t1", "t2"}
None == "None"
CreatedIso == "2024-09-15T14:23:45.123Z"

Ids(rows) == {r.id : r \in rows}
Row(rows, i) == CHOOSE r \in rows : r.id = i

\* ------------------------------------------------------------ pure helpers
\* A datetime is the tuple of its fields, NoTime the None of a datetime column.
NoTime == <<>>

\* parse_drive_datetime: None for a missing or malformed string, else the
\* parsed instant.
parse_drive_datetime(iso_string) ==
    IF iso_string = None THEN NoTime
    ELSE IF iso_string = CreatedIso
         THEN <<2024, 9, 15, 14, 23, 45, 123>>
         ELSE NoTime

Lower(tok) ==
    CASE tok = ".JPG" -> ".jpg"
      [] tok = ".PNG" -> ".png"
      [] OTHER -> tok

ValidExt == {".jpg", ".jpeg", ".png", ".gif", ".webp"}

ext_map(mime) ==
    CASE mime = "image/jpeg" -> ".jpg"
      [] mime = "image/png" -> ".png"
      [] mime = "image/gif" -> ".gif"
      [] mime = "image/webp" -> ".webp"
      [] OTHER -> ".jpg"

ensure_extension(filename, mime) ==
    IF Len(filename) > 0 /\ Lower(filename[Len(filename)]) \in ValidExt
    THEN filename
    ELSE Append(filename, ext_map(mime))

\* ------------------------------------------------------------ state
VARIABLES
    remote,   \* the Drive side: [folders, files]
    edits,    \* remote edits made so far
    db,       \* committed tables: [folders, images, captions]
    cache,    \* static_images/<folder id>/: the file names present
    pc,       \* each worker's position
    call,     \* locals of the sync_* call a worker is in
    sess,     \* a worker's session: writes not yet committed
    run,      \* the trigger a worker serves: op, folders left, results
    hist,     \* what the last completed sync-all run left behind
    cfg       \* the run of config_service.sync_all_folders, if any

vars == <<remote, edits, db, cache, pc, call, sess, run, hist, cfg>>

\* ------------------------------------------------------------ session
NoWrites == [put_f |-> {}, new_f |-> {}, del_f |-> {},
             put_i |-> {}, new_i |-> {}, del_i |-> {}]

\* What a SELECT in the session sees: the committed rows overlaid with the
\* session's own pending writes.
View(d, s) ==
    [folders |-> {r \in d.folders : r.id \notin s.del_f \cup Ids(s.put_f)}
                    \cup {r \in s.put_f : r.id \notin s.del_f},
     images  |-> {r \in d.images : r.id \notin s.del_i \cup Ids(s.put_i)}
                    \cup {r \in s.put_i : r.id \notin s.del_i}]

\* Flush of the pending writes against the committed rows: a duplicate
\* primary key, an UPDATE of a vanished row or a dangling foreign key raises.
FlushRaises(d, s) ==
    \/ \E i \in s.new_f : i \in Ids(d.folders)
    \/ \E i \in s.new_i : i \in Ids(d.images)
    \/ \E r \in s.put_f : r.id \notin s.new_f /\ r.id \notin Ids(d.folders)
    \/ \E r \in s.put_i : r.id \notin s.new_i /\ r.id \notin Ids(d.images)
    \/ \E r \in s.put_i : r.id \notin s.del_i /\ r.folder_id # None
                          /\ r.folder_id \notin Ids(View(d, s).folders)
    \/ \E f \in s.del_f : f \in d.captions

\* Deleting a Folder through the ORM blanks the folder_id of the Image rows
\* of its `images` relationship that the session did not delete itself. It
\* would blank the folder_id of the FolderCaption row of its `caption_data`
\* relationship as well, but that column is the primary key and the flush
\* raises instead: the session never writes the FolderCaption table.
Flushed(d, s) ==
    LET v == View(d, s)
    IN [folders |-> v.folders,
        images  |-> {IF r.folder_id \in s.del_f
                     THEN [r EXCEPT !.folder_id = None] ELSE r
                     : r \in v.images},
        captions |-> d.captions]

\* ------------------------------------------------------------ results
Failure(scope, why) ==
    [scope |-> scope, success |-> FALSE, error |-> why,
     total |-> 0, new |-> 0, updated |-> 0, deleted |-> 0,
     downloaded |-> 0, skipped |-> 0]

Success(scope, total, new, updated, deleted, downloaded, skipped) ==
    [scope |-> scope, success |-> TRUE, error |-> "",
     total |-> total, new |-> new, updated |-> updated, deleted |-> deleted,
     downloaded |-> downloaded, skipped |-> skipped]

NoCall == [fn |-> "none"]
NoRun == [op |-> "none", todo |-> {}, folders |-> {}, results |-> <<>>,
          start |-> [folders |-> {}, images |-> {}, captions |-> {}],
          clean |-> FALSE, second |-> FALSE,
          total_upsert |-> 0, total_delete |-> 0]

NoCfg ==
    [pc |-> "idle", todo |-> {}, folders |-> {}, results |-> <<>>,
     folder |-> None, before |-> {}, partial |-> FALSE, drive_map |-> {},
     ids_to_insert |-> {}, delete_list |-> <<>>, i |-> 0, statements |-> <<>>,
     raised |-> {}, broken |-> FALSE, induced |-> FALSE,
     images |-> [f \in FolderIds |-> {}], drive |-> [f \in FolderIds |-> <<>>]]

\* ------------------------------------------------------------ initial state
\* Two consecutive states of the Drive root. Since Older, folder F1 was
\* renamed and F2 created, X was renamed onto the cache name of Y and its
\* thumbnail link refreshed, and Y was removed.
Older ==
    [folders |-> {[id |-> "F1", name |-> "cats_POST", createdTime |-> CreatedIso]},
     files   |-> {[id |-> "X", name |-> <<"a", ".jpg">>, mimeType |-> "image/jpeg",
                   thumbnailLink |-> "t1", createdTime |-> CreatedIso, parent |-> "F1"],
                  [id |-> "Y", name |-> <<"b">>, mimeType |-> "image/jpeg",
                   thumbnailLink |-> "t1", createdTime |-> CreatedIso, parent |-> "F1"]}]

Remote0 ==
    [folders |-> {[id |-> "F1", name |-> "cats_STORY", createdTime |-> CreatedIso],
                  [id |-> "F2", name |-> "cats_POST", createdTime |-> CreatedIso]},
     files   |-> {[id |-> "X", name |-> <<"b", ".jpg">>, mimeType |-> "image/jpeg",
                   thumbnailLink |-> "t2", createdTime |-> CreatedIso, parent |-> "F1"]}]

\* What a complete sync-all run against tree t leaves: a row per folder and
\* image, and every image downloaded under its cache name. db.captions is
\* the set of the folder_id keys of the FolderCaption rows.
MirrorDb(t) ==
    [folders |-> {[id |-> f.id, name |-> f.name,
                   created_time |-> parse_drive_datetime(f.createdTime)]
                  : f \in t.folders},
     images  |-> {[id |-> f.id, name |-> f.name, folder_id |-> f.parent,
                   mime_type |-> f.mimeType, thumbnail_link |-> f.thumbnailLink,
                   created_time |-> parse_drive_datetime(f.createdTime)]
                  : f \in t.files},
     captions |-> {}]

MirrorCache(t) ==
    [p \in FolderIds |->
        {ensure_extension(f.name, f.mimeType) : f \in {g \in t.files : g.parent = p}}]

EmptyTree == [folders |-> {}, files |-> {}]

\* The service starts against the current Drive tree with the durable state
\* it finds: a fresh install, or the mirror of the tree as it was.
Init ==
    /\ remote = Remote0
    /\ edits = 0
    /\ \E t \in {EmptyTree, Older} :
         /\ db = MirrorDb(t)
         /\ cache = MirrorCache(t)
    /\ pc = [w \in Workers |-> "idle"]
    /\ call = [w \in Workers |-> NoCall]
    /\ sess = [w \in Workers |-> NoWrites]
    /\ run = [w \in Workers |-> NoRun]
    /\ hist = "none"
    /\ cfg = NoCfg

\* ------------------------------------------------------------ the Drive side
\* The environment edits the remote tree at any time. A listing is the only
\* step that reads the Drive side, so an edit between two other steps is the
\* same edit made just before the next listing: edits are taken there.
\* Every edit ends a quiet period: a run in progress is no longer a run
\* against an unchanged remote.
Edited ==
    /\ edits < MaxRemoteEdits
    /\ \A w \in Workers : pc[w] \in {"idle", "sfs_list", "sif_list"}
    /\ edits' = edits + 1
    /\ hist' = "none"
    /\ run' = [w \in Workers |-> [run[w] EXCEPT !.clean = FALSE, !.second = FALSE]]
    /\ UNCHANGED <<db, cache, pc, call, sess, cfg>>

RemoteRenameFile ==
    \E f \in remote.files, n \in FileNames :
        /\ n # f.name
        /\ remote' = [remote EXCEPT !.files = (@ \ {f}) \cup {[f EXCEPT !.name = n]}]
        /\ Edited

RemoteDeleteFile ==
    \E f \in remote.files :
        /\ remote' = [remote EXCEPT !.files = @ \ {f}]
        /\ Edited

RemoteMoveFile ==
    \E f \in remote.files, p \in Ids(remote.folders) :
        /\ p # f.parent
        /\ remote' = [remote EXCEPT !.files = (@ \ {f}) \cup {[f EXCEPT !.parent = p]}]
        /\ Edited

RemoteTouchFile ==
    \E f \in remote.files, t \in Thumbs :
        /\ t # f.thumbnailLink
        /\ remote' = [remote EXCEPT
                        !.files = (@ \ {f}) \cup {[f EXCEPT !.thumbnailLink = t]}]
        /\ Edited

RemoteAddFile ==
    \E i \in ImageIds \ Ids(remote.files), p \in Ids(remote.folders), n \in FileNames :
        /\ remote' = [remote EXCEPT !.files = @ \cup
                        {[id |-> i, name |-> n, mimeType |-> "image/jpeg",
                          thumbnailLink |-> "t1", createdTime |-> CreatedIso,
                          parent |-> p]}]
        /\ Edited

RemoteRenameFolder ==
    \E f \in remote.folders, n \in FolderNames :
        /\ n # f.name
        /\ remote' = [remote EXCEPT !.folders = (@ \ {f}) \cup {[f EXCEPT !.name = n]}]
        /\ Edited

\* Trashing a folder trashes the files below it.
RemoteDeleteFolder ==
    \E f \in remote.folders :
        /\ remote' = [folders |-> remote.folders \ {f},
                      files |-> {x \in remote.files : x.parent # f.id}]
        /\ Edited

RemoteEdit ==
    \/ RemoteRenameFile
    \/ RemoteDeleteFile
    \/ RemoteMoveFile
    \/ RemoteTouchFile
    \/ RemoteAddFile
    \/ RemoteRenameFolder
    \/ RemoteDeleteFolder

\* ------------------------------------------------------------ call and return
SfsCall ==
    [fn |-> "sfs", folder |-> None, before |-> db, before_cache |-> cache,
     listing |-> {}, requests |-> 0, failed |-> 0, db_rows |-> {}, rest |-> {}, blocked |-> {},
     remove_failed |-> {}, synced |-> 0, updated |-> 0, deleted |-> 0]

SifCall(f) ==
    [fn |-> "sif", folder |-> f, before |-> db, before_cache |-> cache,
     listing |-> {}, requests |-> 0, failed |-> 0, db_rows |-> {}, rest |-> {}, blocked |-> {},
     remove_failed |-> {}, synced |-> 0, updated |-> 0, deleted |-> 0]

\* call[w].blocked records, for the record only, the ids whose cached file
\* under the old name could not be renamed: the new name was taken on disk
\* or os.rename raised; call[w].remove_failed the ids of the deleted rows
\* whose os.remove raised.

\* The call of worker w returns res with the committed tables now d and
\* got what its listing loop had collected and met: to the
\* trigger, or into sync_all_folders, which stops on a failed structure sync,
\* reads the Folder table after a good one and then loops over it, or into
\* the loop of run_sync.main, which goes on to unpack the result.
halts_run_never(fn, res) ==
    FALSE

halts_run_on_failure(fn, res) ==
    ~res.success

halts_run_on_error_key(fn, res) ==
    fn = "sfs" /\ ~res.success /\ res.error # "not found"

\* if not folder_sync_result.get("success"): return [folder_sync_result];
\* the loop over the folders has no such test.
halts_run(fn, res) ==
    fn = "sfs" /\ ~res.success

select_folders_before(d, before) ==
    Ids(before.folders)

\* folders = session.exec(select(Folder)).all(), after the structure sync
select_folders(d, before) ==
    Ids(d.folders)

ReturnWith(w, res, d, got) ==
    LET op == run[w].op
        halt == halts_run(call[w].fn, res)
        read == call[w].fn = "sfs" /\ op = "all" /\ ~halt
        todo == IF call[w].fn = "sfs" THEN select_folders(d, call[w].before)
                ELSE run[w].todo
        more == op = "all" /\ ~halt /\ todo # {}
    IN /\ run' = [run EXCEPT ![w].results = Append(@, res),
                             ![w].todo = IF op = "run_sync" THEN @
                                         ELSE IF op = "all" /\ ~halt THEN todo
                                         ELSE {},
                             ![w].folders = IF read THEN todo ELSE @]
       /\ pc' = [pc EXCEPT ![w] = IF op = "run_sync" THEN "rs_unpack"
                                  ELSE IF more THEN "all_next" ELSE "done"]
       /\ call' = [call EXCEPT ![w].rest = {}, ![w].listing = got.items,
                                ![w].requests = got.requests,
                                ![w].failed = got.failed]

Return(w, res, d) ==
    ReturnWith(w, res, d, [items |-> call[w].listing,
                           requests |-> call[w].requests,
                           failed |-> call[w].failed])

\* ------------------------------------------------------------ sync_folder_structure
folders_to_delete_swapped(db_folder_ids, drive_folder_ids) ==
    drive_folder_ids \ db_folder_ids

folders_to_delete(db_folder_ids, drive_folder_ids) ==
    db_folder_ids \ drive_folder_ids

images_in_folder_none(images, folder_ids) ==
    {}

images_in_folder_kept(images, folder_ids) ==
    {r \in images : r.folder_id \notin folder_ids}

\* select(Image).where(Image.folder_id == folder_id), over the doomed folders
images_in_folder(images, folder_ids) ==
    {r \in images : r.folder_id \in folder_ids}

\* The number of files().list requests a listing of items takes: Drive
\* returns PageLen items a page and a nextPageToken while more are left.
NumPages(items) ==
    IF items = {} THEN 1 ELSE (Cardinality(items) + PageLen - 1) \div PageLen

\* What all_files can hold after k pages; Drive decides the order.
FetchedAfter(items, k) ==
    {part \in SUBSET items :
       Cardinality(part) = IF k * PageLen < Cardinality(items)
                           THEN k * PageLen ELSE Cardinality(items)}

paged_listing_break(complete, part, k) ==
    [raised |-> FALSE, items |-> part, requests |-> k, failed |-> 0]

\* while True: results = ...execute(); all_files.extend(...); break on no
\* nextPageToken. An execute() that raises leaves the loop by the exception.
\* After k good pages: requests counts the execute() calls of the loop and
\* failed those that raised, the first of which ends the loop.
paged_listing(complete, part, k) ==
    [raised |-> ~complete, items |-> part,
     requests |-> IF complete THEN k ELSE k + 1,
     failed |-> IF complete THEN 0 ELSE 1]

\* Root lookup and the paginated listing of its child folders. Any request
\* may raise; an empty root lookup returns the failure without a rollback.
SFS_List(w) ==
    /\ pc[w] = "sfs_list"
    /\ \/ \E k \in 0..NumPages(remote.folders) :
            \E part \in FetchedAfter(remote.folders, k) :
               LET got == paged_listing(k = NumPages(remote.folders), part, k)
               IN IF ~got.raised
                  THEN /\ call' = [call EXCEPT ![w].listing = got.items,
                                               ![w].requests = got.requests]
                       /\ pc' = [pc EXCEPT ![w] = "sfs_apply"]
                       /\ UNCHANGED <<run, sess>>
                  ELSE /\ ReturnWith(w, Failure("structure", "exception"), db,
                                     got)
                       /\ sess' = [sess EXCEPT ![w] = NoWrites]
       \/ /\ Return(w, Failure("structure", "not found"), db)
          /\ UNCHANGED sess
    /\ UNCHANGED <<cfg, remote, edits, db, cache, hist>>

\* Steps 3 to 5 and the commit: upsert by id, then for every folder gone
\* from Drive remove its images' cached files and rows, then the folder row.
SFS_Apply(w) ==
    /\ pc[w] = "sfs_apply"
    /\ LET all_folders == call[w].listing
           v == View(db, sess[w])
           db_folder_ids == Ids(v.folders)
           fresh == {[id |-> f.id, name |-> f.name,
                      created_time |-> parse_drive_datetime(f.createdTime)]
                     : f \in {g \in all_folders : g.id \notin db_folder_ids}}
           renamed == {[Row(v.folders, f.id) EXCEPT !.name = f.name]
                       : f \in {g \in all_folders :
                                  /\ g.id \in db_folder_ids
                                  /\ Row(v.folders, g.id).name # g.name}}
           gone == folders_to_delete(db_folder_ids, Ids(all_folders))
           doomed == images_in_folder(v.images, gone)
           on_disk == {r \in doomed : r.name \in cache[r.folder_id]}
           s == [sess[w] EXCEPT !.put_f = @ \cup fresh \cup renamed,
                                !.new_f = @ \cup Ids(fresh),
                                !.del_f = @ \cup gone,
                                !.del_i = @ \cup Ids(doomed)]
       IN \E stuck \in SUBSET on_disk, commit_ok \in BOOLEAN :
            /\ cache' = [f \in FolderIds |->
                           cache[f] \ {r.name : r \in {x \in on_disk \ stuck :
                                                         x.folder_id = f}}]
            /\ sess' = [sess EXCEPT ![w] = NoWrites]
            /\ IF commit_ok /\ ~FlushRaises(db, s)
               THEN /\ db' = Flushed(db, s)
                    /\ Return(w, Success("structure", Cardinality(all_folders),
                                         Cardinality(fresh), Cardinality(renamed),
                                         Cardinality(gone), 0, 0), db')
               ELSE /\ db' = db
                    /\ Return(w, Failure("structure",
                                         IF FlushRaises(db, s) THEN "flush"
                                         ELSE "exception"), db)
    /\ UNCHANGED <<cfg, remote, edits, hist>>

\* ------------------------------------------------------------ sync_images_in_folder
images_to_delete_swapped(db_image_ids, drive_image_ids) ==
    drive_image_ids \ db_image_ids

images_to_delete(db_image_ids, drive_image_ids) ==
    db_image_ids \ drive_image_ids

\* os.path.exists(old_path) and not os.path.exists(new_path)
rename_attempted(old_exists, new_exists) ==
    old_exists /\ ~new_exists

name_update_ungated(renamed, old_exists) ==
    TRUE

name_update_renamed_only(renamed, old_exists) ==
    renamed

\* renamed or not os.path.exists(old_path)
name_update_allowed(renamed, old_exists) ==
    renamed \/ ~old_exists

db_images_all(images, folder_id) ==
    images

\* select(Image).where(Image.folder_id == folder_id)
db_images(images, folder_id) ==
    {r \in images : r.folder_id = folder_id}

\* The paginated listing of the folder's images, then the folder's rows.
SIF_List(w) ==
    /\ pc[w] = "sif_list"
    /\ LET in_folder == {f \in remote.files : f.parent = call[w].folder}
       IN \E k \in 0..NumPages(in_folder) :
            \E part \in FetchedAfter(in_folder, k) :
               LET got == paged_listing(k = NumPages(in_folder), part, k)
               IN IF ~got.raised
                  THEN /\ call' = [call EXCEPT
                             ![w].listing = got.items,
                             ![w].requests = got.requests,
                             ![w].rest = got.items,
                             ![w].db_rows = db_images(View(db, sess[w]).images,
                                                      call[w].folder)]
                       /\ pc' = [pc EXCEPT ![w] = "sif_upsert"]
                       /\ UNCHANGED <<run, sess>>
                  ELSE /\ ReturnWith(w, Failure(call[w].folder, "exception"), db,
                                     got)
                       /\ sess' = [sess EXCEPT ![w] = NoWrites]
    /\ UNCHANGED <<cfg, remote, edits, db, cache, hist>>

session_merge(s, row) ==
    [s EXCEPT !.put_i = @ \cup {row}]

\* session.add of a new Image: an INSERT at the next flush
session_add(s, row) ==
    [s EXCEPT !.put_i = @ \cup {row}, !.new_i = @ \cup {row.id}]

row_changed_always(set_name, new_mime, new_thumb, set_time) ==
    TRUE

\* changed: raised by each of the four field updates that took place
row_changed(set_name, new_mime, new_thumb, set_time) ==
    set_name \/ new_mime \/ new_thumb \/ set_time

\* One iteration of the loop over all_files: add the row of an unknown id, or
\* update the known row field by field, the name only behind the rename gate.
SIF_Upsert(w) ==
    /\ pc[w] = "sif_upsert"
    /\ \E f \in call[w].rest, rename_ok \in BOOLEAN :
         LET folder_id == call[w].folder
             known == f.id \in Ids(call[w].db_rows)
             db_img == IF known THEN Row(call[w].db_rows, f.id)
                       ELSE [id |-> f.id, name |-> f.name, folder_id |-> folder_id,
                             mime_type |-> None, thumbnail_link |-> None,
                             created_time |-> NoTime]
             files == cache[folder_id]
             tried == /\ db_img.name # f.name
                      /\ rename_attempted(db_img.name \in files, f.name \in files)
             renamed == tried /\ rename_ok
             files2 == IF renamed THEN (files \ {db_img.name}) \cup {f.name}
                       ELSE files
             set_name == /\ db_img.name # f.name
                         /\ name_update_allowed(renamed, db_img.name \in files2)
             set_time == db_img.created_time = NoTime /\ f.createdTime # None
             row == [id |-> f.id,
                     name |-> IF set_name THEN f.name ELSE db_img.name,
                     folder_id |-> db_img.folder_id,
                     mime_type |-> f.mimeType,
                     thumbnail_link |-> f.thumbnailLink,
                     created_time |-> IF set_time
                                      THEN parse_drive_datetime(f.createdTime)
                                      ELSE db_img.created_time]
             changed == row_changed(set_name, db_img.mime_type # f.mimeType,
                                    db_img.thumbnail_link # f.thumbnailLink,
                                    set_time)
         IN /\ (tried \/ rename_ok)
            /\ IF ~known
               THEN /\ sess' = [sess EXCEPT ![w] = session_add(@,
                               [id |-> f.id, name |-> f.name, folder_id |-> folder_id,
                                mime_type |-> f.mimeType,
                                thumbnail_link |-> f.thumbnailLink,
                                created_time |-> parse_drive_datetime(f.createdTime)])]
                    /\ call' = [call EXCEPT ![w].rest = @ \ {f},
                                            ![w].synced = @ + 1]
                    /\ cache' = cache
               ELSE /\ sess' = IF changed
                               THEN [sess EXCEPT ![w].put_i = @ \cup {row}]
                               ELSE sess
                    /\ call' = [call EXCEPT
                          ![w].rest = @ \ {f},
                          ![w].updated = IF changed THEN @ + 1 ELSE @,
                          ![w].blocked =
                              IF /\ db_img.name # f.name
                                 /\ db_img.name \in files
                                 /\ (f.name \in files \/ ~rename_ok)
                              THEN @ \cup {f.id} ELSE @]
                    /\ cache' = [cache EXCEPT ![folder_id] = files2]
    /\ UNCHANGED <<cfg, remote, edits, db, pc, run, hist>>

\* session.commit() after the loop.
SIF_CommitUpserts(w) ==
    /\ pc[w] = "sif_upsert"
    /\ call[w].rest = {}
    /\ \E commit_ok \in BOOLEAN :
         IF commit_ok /\ ~FlushRaises(db, sess[w])
         THEN /\ db' = Flushed(db, sess[w])
              /\ pc' = [pc EXCEPT ![w] = "sif_delete"]
              /\ UNCHANGED <<call, run>>
         ELSE /\ db' = db
              /\ Return(w, Failure(call[w].folder,
                                   IF FlushRaises(db, sess[w]) THEN "flush"
                                   ELSE "exception"), db)
    /\ sess' = [sess EXCEPT ![w] = NoWrites]
    /\ UNCHANGED <<cfg, remote, edits, cache, hist>>

rows_to_delete_removed_only(gone, remove_failed) ==
    gone \ remove_failed

\* session.delete(db_img) follows the try/except around os.remove: the row
\* is deleted whether or not the removal of its file raised.
rows_to_delete(gone, remove_failed) ==
    gone

\* The loop over the ids gone from Drive: remove the cached file under the
\* row's name (a failure is only logged), then delete the row.
SIF_Delete(w) ==
    /\ pc[w] = "sif_delete"
    /\ LET folder_id == call[w].folder
           gone == images_to_delete(Ids(call[w].db_rows), Ids(call[w].listing))
           rows == {r \in call[w].db_rows : r.id \in gone}
           on_disk == {r.name : r \in rows} \cap cache[folder_id]
       IN \E stuck \in SUBSET on_disk :
            /\ cache' = [cache EXCEPT ![folder_id] = @ \ (on_disk \ stuck)]
            /\ sess' = [sess EXCEPT ![w].del_i = @ \cup
                           rows_to_delete(gone, {r.id : r \in {x \in rows :
                                                                x.name \in stuck}})]
            /\ call' = [call EXCEPT
                          ![w].deleted = Cardinality(gone),
                          ![w].remove_failed = {r.id : r \in {x \in rows :
                                                               x.name \in stuck}}]
            /\ pc' = [pc EXCEPT ![w] = "sif_download"]
    /\ UNCHANGED <<cfg, remote, edits, db, run, hist>>

\* Step 5 and the last commit: fetch every listed file whose cache name
\* (ensure_extension of the Drive name) is not on disk, then commit.
SIF_Download(w) ==
    /\ pc[w] = "sif_download"
    /\ LET folder_id == call[w].folder
           all_files == call[w].listing
           files_to_download ==
               {f \in all_files :
                  ensure_extension(f.name, f.mimeType) \notin cache[folder_id]}
       IN \E fetched \in SUBSET files_to_download, commit_ok \in BOOLEAN :
            /\ cache' = [cache EXCEPT ![folder_id] = @ \cup
                           {ensure_extension(f.name, f.mimeType) : f \in fetched}]
            /\ IF commit_ok /\ ~FlushRaises(db, sess[w])
               THEN /\ db' = Flushed(db, sess[w])
                    /\ Return(w, Success(folder_id, Cardinality(all_files),
                                   call[w].synced, call[w].updated, call[w].deleted,
                                   Cardinality(fetched),
                                   Cardinality(all_files)
                                     - Cardinality(files_to_download)), db')
               ELSE /\ db' = db
                    /\ Return(w, Failure(folder_id,
                                         IF FlushRaises(db, sess[w]) THEN "flush"
                                         ELSE "exception"), db)
    /\ sess' = [sess EXCEPT ![w] = NoWrites]
    /\ UNCHANGED <<cfg, remote, edits, hist>>

\* ------------------------------------------------------------ sync_all_folders
\* The loop over the Folder rows read after the structure sync.
ALL_Next(w) ==
    /\ pc[w] = "all_next"
    /\ \E f \in run[w].todo :
         /\ run' = [run EXCEPT ![w].todo = @ \ {f}]
         /\ call' = [call EXCEPT ![w] = SifCall(f)]
    /\ pc' = [pc EXCEPT ![w] = "sif_list"]
    /\ UNCHANGED <<cfg, remote, edits, db, cache, sess, hist>>

\* ------------------------------------------------------------ triggers
trigger_sync_structure(w) ==
    /\ pc[w] = "idle"
    /\ pc' = [pc EXCEPT ![w] = "sfs_list"]
    /\ call' = [call EXCEPT ![w] = SfsCall]
    /\ run' = [run EXCEPT ![w] = [NoRun EXCEPT !.op = "structure", !.start = db]]
    /\ hist' = "none"
    /\ UNCHANGED <<cfg, remote, edits, db, cache, sess>>

trigger_sync_folder(w, f) ==
    /\ pc[w] = "idle"
    /\ f \in Ids(db.folders)
    /\ pc' = [pc EXCEPT ![w] = "sif_list"]
    /\ call' = [call EXCEPT ![w] = SifCall(f)]
    /\ run' = [run EXCEPT ![w] = [NoRun EXCEPT !.op = "folder", !.start = db]]
    /\ hist' = "none"
    /\ UNCHANGED <<cfg, remote, edits, db, cache, sess>>

trigger_sync_all(w) ==
    /\ pc[w] = "idle"
    /\ pc' = [pc EXCEPT ![w] = "sfs_list"]
    /\ call' = [call EXCEPT ![w] = SfsCall]
    /\ run' = [run EXCEPT ![w] = [NoRun EXCEPT !.op = "all", !.start = db,
                                               !.clean = TRUE,
                                               !.second = (hist = "synced")]]
    /\ hist' = "none"
    /\ UNCHANGED <<cfg, remote, edits, db, cache, sess>>

\* What the trigger answers once its sync call has returned result:
\* sync/structure drops the result, sync/folder/{id} wraps it as data, and
\* sync/all has answered before the run began.
trigger_response(op, result) ==
    CASE op = "structure" -> [status |-> "success", data |-> None]
      [] op = "folder" -> [status |-> "success", data |-> result]
      [] OTHER -> [status |-> "started", data |-> None]

\* The request or background task is over; a sync-all run that succeeded for
\* every scope against an unchanged remote leaves the mirror in sync.
Finish(w) ==
    /\ pc[w] \in {"done", "stopped"}
    /\ pc' = [pc EXCEPT ![w] = "idle"]
    /\ hist' = IF /\ pc[w] = "done"
                  /\ run[w].op = "all"
                  /\ run[w].clean
                  /\ \A k \in 1..Len(run[w].results) : run[w].results[k].success
               THEN "synced" ELSE "none"
    /\ call' = [call EXCEPT ![w] = NoCall]
    /\ run' = [run EXCEPT ![w] = NoRun]
    /\ sess' = [sess EXCEPT ![w] = NoWrites]
    /\ UNCHANGED <<cfg, remote, edits, db, cache>>

\* The process stops in the middle of a sync: the open transaction and the
\* call's progress are lost; what the call was and what it read are kept
\* for the record.
Crash(w) ==
    /\ pc[w] \notin {"idle", "done", "stopped"}
    /\ pc' = [pc EXCEPT ![w] = "stopped"]
    /\ sess' = [sess EXCEPT ![w] = NoWrites]
    /\ call' = [call EXCEPT ![w].rest = {}, ![w].blocked = {},
                            ![w].remove_failed = {}, ![w].synced = 0,
                            ![w].updated = 0, ![w].deleted = 0]
    /\ run' = [run EXCEPT ![w] = [NoRun EXCEPT !.op = run[w].op]]
    /\ hist' = "none"
    /\ UNCHANGED <<cfg, remote, edits, db, cache>>

Work(w) ==
    \/ trigger_sync_structure(w)
    \/ \E f \in FolderIds : trigger_sync_folder(w, f)
    \/ trigger_sync_all(w)
    \/ SFS_List(w)
    \/ SFS_Apply(w)
    \/ SIF_List(w)
    \/ SIF_Upsert(w)
    \/ SIF_CommitUpserts(w)
    \/ SIF_Delete(w)
    \/ SIF_Download(w)
    \/ ALL_Next(w)
    \/ Finish(w)

\* One process serving one trigger at a time.
Next ==
    \/ RemoteEdit
    \/ Work("w1")
    \/ Crash("w1")

Spec == Init /\ [][Next]_vars

\* Two request threads or background tasks at once, against a fixed remote,
\* starting from the mirror of the earlier tree.
InitConc == Init /\ db = MirrorDb(Older)

NextConc == \E w \in Workers : Work(w)

SpecConc == InitConc /\ [][NextConc]_vars

\* ------------------------------------------------------------ config_service
\* The older set-comparison sync. It reads and writes the Image table by id
\* alone, so cfg keeps that table and the Drive listings as ids, numbered so
\* that the page and chunk boundaries of a long listing can be told:
\* cfg.images[f] is the set of ids of the rows with folder_id = f, and
\* cfg.drive[f] the ids of the folder's files in the order Drive lists them.
chunk_size == 1000
pageSize == 1000

CfgCounts == {0, 1, chunk_size + 1, MaxImages}

Range(seq) == {seq[j] : j \in 1..Len(seq)}

\* list(ids_to_delete), in ascending order
AsList(ids) == SelectSeq([i \in 1..MaxImages |-> i], LAMBDA i : i \in ids)

CfgPages(listing) ==
    IF Len(listing) = 0 THEN 1 ELSE (Len(listing) + pageSize - 1) \div pageSize

\* The keys of the map built from the first pages_ok pages: a request that
\* raises is printed and ends the loop, and the map collected so far is
\* returned.
fetch_all_files_from_drive(listing, pages_ok) ==
    Range(SubSeq(listing, 1, IF pages_ok * pageSize < Len(listing)
                             THEN pages_ok * pageSize ELSE Len(listing)))

chunk_short(delete_list, i) ==
    SubSeq(delete_list, i + 1,
           IF i + chunk_size - 1 < Len(delete_list)
           THEN i + chunk_size - 1 ELSE Len(delete_list))

\* delete_list[i:i + chunk_size]
chunk(delete_list, i) ==
    SubSeq(delete_list, i + 1,
           IF i + chunk_size < Len(delete_list)
           THEN i + chunk_size ELSE Len(delete_list))

\* sync_all_folders: folders = session.exec(select(Folder)).all()
cfg_sync_all_folders ==
    /\ cfg.pc = "idle"
    /\ cfg' = [NoCfg EXCEPT !.pc = "loop", !.todo = Ids(db.folders),
                            !.folders = Ids(db.folders),
                            !.drive = cfg.drive, !.images = cfg.images]
    /\ UNCHANGED <<remote, edits, db, cache, pc, call, sess, run, hist>>

\* for f in folders: the next folder, or the return of results.
CFG_Next ==
    /\ cfg.pc = "loop"
    /\ IF cfg.todo = {}
       THEN cfg' = [cfg EXCEPT !.pc = "done"]
       ELSE \E f \in cfg.todo :
              cfg' = [cfg EXCEPT
                        !.pc = "fetch", !.todo = @ \ {f}, !.folder = f,
                        !.before = cfg.images[f],
                        !.partial = FALSE, !.drive_map = {},
                        !.ids_to_insert = {}, !.delete_list = <<>>, !.i = 0,
                        !.statements = <<>>]
    /\ UNCHANGED <<remote, edits, db, cache, pc, call, sess, run, hist>>

\* except Exception as e: print(...); nothing is appended to results.
CfgRaise(induced, breaks) ==
    cfg' = [cfg EXCEPT !.pc = "loop", !.raised = @ \cup {cfg.folder},
                       !.induced = @ \/ induced, !.broken = @ \/ breaks]

\* sync_images_in_folder up to drive_map: get_drive_service may raise, the
\* fetch itself never does.
CFG_Fetch ==
    /\ cfg.pc = "fetch"
    /\ \/ CfgRaise(FALSE, FALSE)
       \/ \E pages_ok \in 0..CfgPages(cfg.drive[cfg.folder]) :
            cfg' = [cfg EXCEPT
                      !.pc = "diff",
                      !.partial = pages_ok < CfgPages(cfg.drive[cfg.folder]),
                      !.drive_map = fetch_all_files_from_drive(
                                         cfg.drive[cfg.folder], pages_ok)]
    /\ UNCHANGED <<remote, edits, db, cache, pc, call, sess, run, hist>>

\* The select of the folder's ids and the set operations. The select raises
\* on a session whose transaction an earlier failed flush left unusable.
CFG_Diff ==
    /\ cfg.pc = "diff"
    /\ IF cfg.broken
       THEN CfgRaise(TRUE, FALSE)
       ELSE cfg' = [cfg EXCEPT
                      !.pc = "delete",
                      !.ids_to_insert = cfg.drive_map \ cfg.images[cfg.folder],
                      !.delete_list = AsList(cfg.images[cfg.folder]
                                               \ cfg.drive_map)]
    /\ UNCHANGED <<remote, edits, db, cache, pc, call, sess, run, hist>>

\* One pass of the loop over range(0, len(delete_list), chunk_size): one
\* delete statement, executed in the open transaction.
CFG_DeleteChunk ==
    /\ cfg.pc = "delete"
    /\ cfg.i < Len(cfg.delete_list)
    /\ cfg' = [cfg EXCEPT !.statements = Append(@, chunk(cfg.delete_list, cfg.i)),
                          !.i = @ + chunk_size]
    /\ UNCHANGED <<remote, edits, db, cache, pc, call, sess, run, hist>>

\* The bulk insert, the commit and the returned counts. A failed commit
\* undoes the statements; whether the session is usable afterwards depends
\* on where the commit failed.
CFG_Commit ==
    /\ cfg.pc = "delete"
    /\ cfg.i >= Len(cfg.delete_list)
    /\ LET deleted == UNION {Range(cfg.statements[j]) :
                               j \in 1..Len(cfg.statements)}
           others == UNION {cfg.images[g] : g \in FolderIds \ {cfg.folder}}
           duplicate == cfg.ids_to_insert \cap (others \ deleted) # {}
       IN \E commit_ok \in BOOLEAN, breaks \in BOOLEAN :
            IF commit_ok /\ ~duplicate
            THEN /\ ~breaks
                 /\ cfg' = [cfg EXCEPT
                              !.pc = "loop",
                              !.images = [g \in FolderIds |->
                                            IF g = cfg.folder
                                            THEN (cfg.images[g] \ deleted)
                                                   \cup cfg.ids_to_insert
                                            ELSE cfg.images[g] \ deleted],
                              !.results = Append(@,
                                 [inserted |-> Cardinality(cfg.ids_to_insert),
                                  deleted |-> Len(cfg.delete_list),
                                  total_active |-> Cardinality(cfg.drive_map),
                                  folder |-> Row(db.folders, cfg.folder).name])]
            ELSE CfgRaise(FALSE, breaks)
    /\ UNCHANGED <<remote, edits, db, cache, pc, call, sess, run, hist>>

\* return results
CFG_Return ==
    /\ cfg.pc = "done"
    /\ cfg' = [NoCfg EXCEPT !.drive = cfg.drive, !.images = cfg.images]
    /\ UNCHANGED <<remote, edits, db, cache, pc, call, sess, run, hist>>

\* Folder F1 with up to MaxImages rows against a listing that is empty or
\* full, beside an empty folder F2.
InitCfg ==
    /\ remote = Remote0
    /\ edits = 0
    /\ db = MirrorDb(Remote0)
    /\ cache = MirrorCache(Remote0)
    /\ pc = [w \in Workers |-> "idle"]
    /\ call = [w \in Workers |-> NoCall]
    /\ sess = [w \in Workers |-> NoWrites]
    /\ run = [w \in Workers |-> NoRun]
    /\ hist = "none"
    /\ \E n \in CfgCounts, m \in {0, MaxImages} :
          cfg = [NoCfg EXCEPT
                   !.images = [f \in FolderIds |-> IF f = "F1" THEN 1..n ELSE {}],
                   !.drive = [f \in FolderIds |->
                                IF f = "F1" THEN [i \in 1..m |-> i] ELSE <<>>]]

NextCfg ==
    \/ cfg_sync_all_folders
    \/ CFG_Next
    \/ CFG_Fetch
    \/ CFG_Diff
    \/ CFG_DeleteChunk
    \/ CFG_Commit
    \/ CFG_Return

SpecCfg == InitCfg /\ [][NextCfg]_vars

\* ------------------------------------------------------------ run_sync
\* The keys of the dictionary sync_images_in_folder returns, in order.
result_keys(res) ==
    IF res.success
    THEN <<"success", "folder_id", "total_images", "new_db_records",
           "updated_db_records", "deleted_db_records", "downloaded_files",
           "skipped_files">>
    ELSE <<"success", "folder_id", "error">>

\* main: folders = session.exec(select(Folder)).all(), the totals at 0.
run_sync_main(w) ==
    /\ pc[w] = "idle"
    /\ pc' = [pc EXCEPT ![w] = "rs_next"]
    /\ run' = [run EXCEPT ![w] = [NoRun EXCEPT !.op = "run_sync", !.start = db,
                                               !.todo = Ids(db.folders),
                                               !.folders = Ids(db.folders)]]
    /\ hist' = "none"
    /\ UNCHANGED <<cfg, remote, edits, db, cache, call, sess>>

\* for index, folder in enumerate(folders): the call of the next folder's
\* sync, or the end of the loop and the summary line.
RS_Next(w) ==
    /\ pc[w] = "rs_next"
    /\ IF run[w].todo = {}
       THEN /\ pc' = [pc EXCEPT ![w] = "done"]
            /\ UNCHANGED <<run, call>>
       ELSE /\ \E f \in run[w].todo :
                 /\ run' = [run EXCEPT ![w].todo = @ \ {f}]
                 /\ call' = [call EXCEPT ![w] = SifCall(f)]
            /\ pc' = [pc EXCEPT ![w] = "sif_list"]
    /\ UNCHANGED <<cfg, remote, edits, db, cache, sess, hist>>

\* upsert, delete = sync_images_in_folder(...): unpacking a dictionary
\* iterates its keys and raises ValueError unless there are two of them;
\* with two, the names are bound to the keys, strings, and the addition to
\* a total raises TypeError. Either exception is caught and printed, the
\* totals keep their value, and the loop sleeps before the next folder.
RS_Unpack(w) ==
    /\ pc[w] = "rs_unpack"
    /\ LET keys == result_keys(run[w].results[Len(run[w].results)])
           raised == Len(keys) # 2
       IN run' = [run EXCEPT
                    ![w].total_upsert = IF raised THEN @ ELSE @,
                    ![w].total_delete = IF raised THEN @ ELSE @]
    /\ pc' = [pc EXCEPT ![w] = "rs_next"]
    /\ UNCHANGED <<cfg, remote, edits, db, cache, call, sess, hist>>

\* The script run by hand or by a scheduler on a database whose Folder
\* table a structure sync has filled.
InitRunSync ==
    /\ remote = Remote0
    /\ edits = 0
    /\ \E t \in {EmptyTree, Older} :
         /\ db = [MirrorDb(t) EXCEPT !.folders = MirrorDb(Remote0).folders]
         /\ cache = MirrorCache(t)
    /\ pc = [w \in Workers |-> "idle"]
    /\ call = [w \in Workers |-> NoCall]
    /\ sess = [w \in Workers |-> NoWrites]
    /\ run = [w \in Workers |-> NoRun]
    /\ hist = "none"
    /\ cfg = NoCfg

NextRunSync ==
    \/ RemoteEdit
    \/ run_sync_main("w1")
    \/ RS_Next("w1")
    \/ SIF_List("w1")
    \/ SIF_Upsert("w1")
    \/ SIF_CommitUpserts("w1")
    \/ SIF_Delete("w1")
    \/ SIF_Download("w1")
    \/ RS_Unpack("w1")
    \/ Finish("w1")

SpecRunSync == InitRunSync /\ [][NextRunSync]_vars

\* ------------------------------------------------------------ folder captions
\* POST /folder/{folder_id}/captions: 404 without the Folder row, else the
\* FolderCaption row of the folder is created if absent.
save_folder_captions(f) ==
    /\ pc["w1"] = "idle"
    /\ f \in Ids(db.folders)
    /\ db' = [db EXCEPT !.captions = @ \cup {f}]
    /\ hist' = "none"
    /\ UNCHANGED <<cfg, remote, edits, cache, pc, call, sess, run>>

\* The structure sync of a service whose operators save captions.
NextCaption ==
    \/ RemoteEdit
    \/ \E f \in FolderIds : save_folder_captions(f)
    \/ trigger_sync_structure("w1")
    \/ SFS_List("w1")
    \/ SFS_Apply("w1")
    \/ Finish("w1")

SpecCaption == Init /\ [][NextCaption]_vars

\* ------------------------------------------------------------ one folder's sync
\* sync_images_in_folder called for one folder at a time against a fixed
\* remote. The rows it finds were written by an earlier sync of this module,
\* or by config_service, which leaves mime_type and created_time empty; a
\* Drive file may come without its createdTime.
RowsOf(i, f) ==
    {[id |-> i, name |-> n, folder_id |-> f, mime_type |-> m,
      thumbnail_link |-> "t2", created_time |-> c]
     : n \in {<<"a", ".jpg">>, <<"b", ".jpg">>}, m \in {None, "image/jpeg"},
       c \in {NoTime, parse_drive_datetime(CreatedIso)}}

InitReport ==
    /\ \E t \in {CreatedIso, None} :
          remote = [Remote0 EXCEPT
                      !.files = {[x EXCEPT !.createdTime = t] : x \in Remote0.files}]
    /\ edits = 0
    /\ \E xs \in {{}} \cup {{r} : r \in RowsOf("X", "F1")},
          ys \in SUBSET {Row(MirrorDb(Older).images, "Y")} :
          db = [folders |-> MirrorDb(Remote0).folders, images |-> xs \cup ys,
                captions |-> {}]
    /\ \E kept \in SUBSET {<<"a", ".jpg">>, <<"b", ".jpg">>} :
          cache = [f \in FolderIds |-> IF f = "F1" THEN kept ELSE {}]
    /\ pc = [w \in Workers |-> "idle"]
    /\ call = [w \in Workers |-> NoCall]
    /\ sess = [w \in Workers |-> NoWrites]
    /\ run = [w \in Workers |-> NoRun]
    /\ hist = "none"
    /\ cfg = NoCfg

NextReport ==
    \/ \E f \in FolderIds : trigger_sync_folder("w1", f)
    \/ SIF_List("w1")
    \/ SIF_Upsert("w1")
    \/ SIF_CommitUpserts("w1")
    \/ SIF_Delete("w1")
    \/ SIF_Download("w1")
    \/ Finish("w1")

SpecReport == InitReport /\ [][NextReport]_vars

\* ------------------------------------------------------------ a healthy environment
\* The step of worker w met no failure: no call returned success False, no
\* os.rename and no os.remove raised, and every download delivered its file.
AllSucceed(w) ==
    /\ \A k \in 1..Len(run'[w].results) : run'[w].results[k].success
    /\ pc[w] = "sif_upsert"
         => \A f \in call[w].listing :
               f.id \in call'[w].blocked \ call[w].blocked
                 => f.name \in cache[call[w].folder]
    /\ pc[w] = "sif_delete"
         => \A r \in call[w].db_rows :
               r.id \notin Ids(call[w].listing) => r.name \notin cache'[call[w].folder]
    /\ pc[w] = "sfs_apply"
         => \A r \in db.images :
               r.folder_id \in Ids(db.folders) \ Ids(call[w].listing)
                 => r.name \notin cache'[r.folder_id]
    /\ pc[w] = "sif_download"
         => \A f \in call[w].listing :
               ensure_extension(f.name, f.mimeType) \in cache'[call[w].folder]

\* sync_all_folders invoked again and again by one process against a fixed
\* remote, every call succeeding.
NextLive ==
    \/ trigger_sync_all("w1") /\ AllSucceed("w1")
    \/ SFS_List("w1") /\ AllSucceed("w1")
    \/ SFS_Apply("w1") /\ AllSucceed("w1")
    \/ SIF_List("w1") /\ AllSucceed("w1")
    \/ SIF_Upsert("w1") /\ AllSucceed("w1")
    \/ SIF_CommitUpserts("w1") /\ AllSucceed("w1")
    \/ SIF_Delete("w1") /\ AllSucceed("w1")
    \/ SIF_Download("w1") /\ AllSucceed("w1")
    \/ ALL_Next("w1") /\ AllSucceed("w1")
    \/ Finish("w1") /\ AllSucceed("w1")

\* Any local state an earlier run can have left: a mirror of an earlier tree
\* with any of its downloads missing.
InitLive ==
    /\ remote = Remote0
    /\ edits = 0
    /\ \E t \in {EmptyTree, Older} :
          \E kept \in SUBSET MirrorCache(t)["F1"] :
             /\ db = MirrorDb(t)
             /\ cache = [MirrorCache(t) EXCEPT !["F1"] = kept]
    /\ pc = [w \in Workers |-> "idle"]
    /\ call = [w \in Workers |-> NoCall]
    /\ sess = [w \in Workers |-> NoWrites]
    /\ run = [w \in Workers |-> NoRun]
    /\ hist = "none"
    /\ cfg = NoCfg

SpecLive == InitLive /\ [][NextLive]_vars /\ WF_vars(NextLive)

\* ------------------------------------------------------------ properties
ImagesOf(d, f) == {r \in d.images : r.folder_id = f}

LastResult(w) == run[w].results[Len(run[w].results)]

\* The call of worker w has just returned its result dictionary.
Returned(w, fn) ==
    /\ pc[w] \in {"done", "all_next"}
    /\ call[w].fn = fn
    /\ Len(run[w].results) > 0

\* The local set of the call's scope as it was when the call began.
LocalBefore(w) ==
    IF call[w].fn = "sfs" THEN call[w].before.folders
    ELSE ImagesOf(call[w].before, call[w].folder)

\* C1: a call that found its remote listing empty while its local set was
\* not empty has deleted nothing, left the tables as they were and reported
\* a failure.
AmbiguousEmptyGuard ==
    \A w \in Workers :
        (/\ pc[w] \in {"done", "all_next"}
         /\ call[w].fn \in {"sfs", "sif"}
         /\ Len(run[w].results) > 0
         /\ call[w].listing = {}
         /\ LocalBefore(w) # {})
        => (~LastResult(w).success /\ db = call[w].before)

\* C2: when sync_images_in_folder returns success for folder F, the ids of
\* the Image rows with folder_id = F are exactly the ids of the listing.
Completeness ==
    \A w \in Workers :
        (Returned(w, "sif") /\ LastResult(w).success)
        => Ids(ImagesOf(db, call[w].folder)) = Ids(call[w].listing)

\* A successful image sync that had rows to delete and files to keep.
CompletenessWitness ==
    \E w \in Workers :
        /\ Returned(w, "sif")
        /\ LastResult(w).success
        /\ Ids(LocalBefore(w)) \ Ids(call[w].listing) # {}
        /\ Ids(call[w].listing) # {}
        /\ Ids(ImagesOf(db, call[w].folder)) = Ids(call[w].listing)

\* C3: with remote ids R and local ids L, a successful sync_folder_structure
\* inserts exactly R \ L, deletes exactly L \ R, changes at most the name of
\* the rows in both, and leaves the local ids equal to R.
FolderDiff ==
    \A w \in Workers :
        (Returned(w, "sfs") /\ LastResult(w).success)
        => LET R == Ids(call[w].listing)
               L == Ids(call[w].before.folders)
               now == Ids(db.folders)
           IN /\ now \ L = R \ L
              /\ L \ now = L \ R
              /\ now = R
              /\ \A i \in R \cap L :
                    /\ Cardinality({r \in db.folders : r.id = i}) = 1
                    /\ Row(db.folders, i) =
                         [Row(call[w].before.folders, i)
                            EXCEPT !.name = Row(call[w].listing, i).name]
              /\ LastResult(w).new = Cardinality(R \ L)
              /\ LastResult(w).deleted = Cardinality(L \ R)

\* A successful structure sync that both inserted and deleted a folder.
FolderDiffWitness ==
    \E w \in Workers :
        /\ Returned(w, "sfs")
        /\ LastResult(w).success
        /\ Ids(call[w].listing) \ Ids(call[w].before.folders) # {}
        /\ Ids(call[w].before.folders) \ Ids(call[w].listing) # {}

\* C4: a sync_all_folders that directly follows one that succeeded for
\* every scope, with the remote and the cache untouched in between, reports
\* 0 new, 0 updated and 0 deleted for every scope and leaves the tables as
\* they were.
Idempotence ==
    \A w \in Workers :
        (pc[w] = "done" /\ run[w].op = "all" /\ run[w].second)
        => /\ \A k \in 1..Len(run[w].results) :
                 /\ run[w].results[k].new = 0
                 /\ run[w].results[k].updated = 0
                 /\ run[w].results[k].deleted = 0
           /\ db = run[w].start

NoOrphans(d) == \A r \in d.images : r.folder_id \in Ids(d.folders)

\* C5: no Image row ever refers to a Folder row that does not exist, during
\* and after any run, however it ended; and when sync_folder_structure
\* returns, alone or inside sync_all_folders, the rows of the images of
\* every folder it deleted are gone with the folder.
CascadeIntegrity ==
    /\ NoOrphans(db)
    /\ \A w \in Workers :
          Returned(w, "sfs")
          => \A r \in call[w].before.images :
                r.folder_id \notin Ids(db.folders) => r.id \notin Ids(db.images)

\* A structure sync deleted a folder that had images.
CascadeWitness ==
    \E w \in Workers :
        /\ Returned(w, "sfs")
        /\ LastResult(w).success
        /\ \E r \in call[w].before.images :
              /\ r.folder_id \in Ids(call[w].before.folders)
              /\ r.folder_id \notin Ids(db.folders)

\* The files of the call's listing whose row existed under another name.
RenamedOnDrive(w) ==
    {f \in call[w].listing :
       /\ f.id \in Ids(call[w].db_rows)
       /\ Row(call[w].db_rows, f.id).name # f.name}

\* C6 as stated: after a successful sync_images_in_folder every row whose
\* image was renamed on Drive carries the new name, and is the only row
\* with its id, whatever the cache directory held.
RenameSafety ==
    \A w \in Workers :
        (Returned(w, "sif") /\ LastResult(w).success)
        => \A f \in RenamedOnDrive(w) :
              /\ Cardinality({r \in db.images : r.id = f.id}) = 1
              /\ Row(db.images, f.id).name = f.name

\* C6, amended: after a successful sync_images_in_folder a row whose image
\* was renamed on Drive carries the new name, unless a cached file under the
\* old name could not be renamed (the new name was taken on disk or the
\* rename raised), in which case it keeps the old name; either way it is the
\* only row with its id.
RenameSafetyGated ==
    \A w \in Workers :
        (Returned(w, "sif") /\ LastResult(w).success)
        => \A f \in RenamedOnDrive(w) :
              /\ Cardinality({r \in db.images : r.id = f.id}) = 1
              /\ Row(db.images, f.id).name =
                   IF f.id \in call[w].blocked
                   THEN Row(call[w].db_rows, f.id).name
                   ELSE f.name

\* A successful image sync that renamed one row's cached file and name.
RenameSafetyWitness ==
    \E w \in Workers :
        /\ Returned(w, "sif")
        /\ LastResult(w).success
        /\ \E f \in RenamedOnDrive(w) :
              /\ f.id \notin call[w].blocked
              /\ Row(call[w].db_rows, f.id).name \in call[w].before_cache[call[w].folder]
              /\ f.name \in cache[call[w].folder]
              /\ Row(db.images, f.id).name = f.name

\* The rows whose name the step writes into the session.
NameWrites(w) ==
    {r \in sess'[w].put_i \ sess[w].put_i :
       IF r.id \in Ids(call[w].db_rows)
       THEN Row(call[w].db_rows, r.id).name # r.name
       ELSE FALSE}

\* C7: a step writes a known row's new name only if it renamed the cached
\* file from the old name to the new one in that step or no cached file
\* existed under the old name, and after the write no cached file is left
\* under the old name.
RenameGating ==
    [][\A w \in Workers :
         \A r \in NameWrites(w) :
            LET old == Row(call[w].db_rows, r.id).name
                dir == call[w].folder
            IN /\ old \notin cache'[dir]
               /\ old \in cache[dir]
                    => (r.name \notin cache[dir] /\ r.name \in cache'[dir])]_vars

\* A name update is pending in the session after its cached file was renamed.
RenameGatingWitness ==
    \E w \in Workers :
        /\ pc[w] = "sif_upsert"
        /\ \E r \in sess[w].put_i :
              /\ r.id \in Ids(call[w].db_rows)
              /\ Row(call[w].db_rows, r.id).name # r.name
              /\ Row(call[w].db_rows, r.id).name \in call[w].before_cache[call[w].folder]
              /\ r.name \in cache[call[w].folder]
              /\ r.name \notin call[w].before_cache[call[w].folder]

\* C8: when sync_images_in_folder has failed or the process has stopped in
\* it, either none of the folder's inserts, updates and deletes is committed
\* or all of them are.
FolderAtomicity ==
    \A w \in Workers :
        (/\ call[w].fn = "sif"
         /\ \/ pc[w] = "stopped"
            \/ Returned(w, "sif") /\ ~LastResult(w).success)
        => \/ ImagesOf(db, call[w].folder) = ImagesOf(call[w].before, call[w].folder)
           \/ Ids(ImagesOf(db, call[w].folder)) = Ids(call[w].listing)

\* C9: when sync_folder_structure has failed, the Folder table, the Image
\* table and the cached files are as they were before the call, and the
\* result names the cause.
StructureAtomicity ==
    \A w \in Workers :
        (Returned(w, "sfs") /\ ~LastResult(w).success)
        => /\ db = call[w].before
           /\ cache = call[w].before_cache
           /\ LastResult(w).error # ""

Running(w) == pc[w] \notin {"idle", "done", "stopped"}

Scope(w) == IF call[w].fn = "sfs" THEN "structure" ELSE call[w].folder

\* C10: no two sync runs of the same scope execute at the same time.
SingleFlight ==
    \A v, w \in Workers :
        (v # w /\ Running(v) /\ Running(w)) => Scope(v) # Scope(w)

\* C11: in a sync_all_folders run whose structure sync did not succeed, no
\* sync_images_in_folder call is made and the returned list is the failed
\* structure result alone.
StructureShortCircuit ==
    \A w \in Workers :
        (/\ run[w].op = "all"
         /\ Len(run[w].results) > 0
         /\ ~run[w].results[1].success)
        => /\ pc[w] = "done"
           /\ call[w].fn = "sfs"
           /\ run[w].todo = {}
           /\ Len(run[w].results) = 1

\* A sync_all_folders run ended on a failed structure sync while the Folder
\* table had folders to visit.
StructureShortCircuitWitness ==
    \E w \in Workers :
        /\ pc[w] = "done"
        /\ run[w].op = "all"
        /\ Len(run[w].results) = 1
        /\ ~run[w].results[1].success
        /\ db.folders # {}

\* C12: a finished sync_all_folders run whose structure sync succeeded
\* returns, after the structure record, exactly one record per folder of the
\* Folder table; the record of a folder whose image sync failed carries
\* success False, the folder id and the error, and the other folders are
\* visited all the same.
FailureIsolation ==
    \A w \in Workers :
        (pc[w] = "done" /\ run[w].op = "all" /\ run[w].results[1].success)
        => LET rs == run[w].results
               per == [f \in Ids(db.folders) |->
                         {k \in 2..Len(rs) : rs[k].scope = f}]
           IN /\ Len(rs) = 1 + Cardinality(Ids(db.folders))
              /\ \A f \in Ids(db.folders) : Cardinality(per[f]) = 1
              /\ \A k \in 2..Len(rs) : ~rs[k].success => rs[k].error # ""

\* The first folder's image sync failed and the second folder's succeeded.
FailureIsolationWitness ==
    \E w \in Workers :
        /\ pc[w] = "done"
        /\ run[w].op = "all"
        /\ Len(run[w].results) = 3
        /\ run[w].results[1].success
        /\ ~run[w].results[2].success
        /\ run[w].results[3].success

\* The local ids and names are the remote ones.
Mirrored ==
    /\ {[id |-> r.id, name |-> r.name] : r \in db.folders}
         = {[id |-> f.id, name |-> f.name] : f \in remote.folders}
    /\ {[id |-> r.id, name |-> r.name, folder_id |-> r.folder_id] : r \in db.images}
         = {[id |-> f.id, name |-> f.name, folder_id |-> f.parent] : f \in remote.files}

\* C13: with the remote fixed and every call succeeding, invoking
\* sync_all_folders again and again eventually makes the local Folder and
\* Image ids and names equal the remote ones, for good.
Convergence == <>[]Mirrored

\* What a complete listing of the call's scope holds.
ScopeRemote(w) ==
    IF call[w].fn = "sfs" THEN remote.folders
    ELSE {f \in remote.files : f.parent = call[w].folder}

\* C14: sync_folder_structure and sync_images_in_folder write nothing while
\* they list, apply their diff only to the listing of every page, and when a
\* page request raised return success False with no row changed.
FullListingOnly ==
    \A w \in Workers :
        /\ pc[w] \in {"sfs_list", "sif_list"}
             => (sess[w] = NoWrites /\ db = call[w].before)
        /\ pc[w] \in {"sfs_apply", "sif_upsert", "sif_delete", "sif_download"}
             => call[w].listing = ScopeRemote(w)
        /\ (/\ pc[w] \in {"done", "all_next"}
            /\ call[w].fn \in {"sfs", "sif"}
            /\ Len(run[w].results) > 0
            /\ call[w].listing # ScopeRemote(w))
             => (~LastResult(w).success /\ db = call[w].before)

\* A listing raised after a page that lacks a local row's id: a diff against
\* the pages fetched so far would have deleted that row.
FullListingOnlyWitness ==
    \E w \in Workers :
        /\ pc[w] \in {"done", "all_next"}
        /\ call[w].fn \in {"sfs", "sif"}
        /\ Len(run[w].results) > 0
        /\ ~LastResult(w).success
        /\ call[w].listing # {}
        /\ call[w].listing # ScopeRemote(w)
        /\ Ids(LocalBefore(w)) \ Ids(call[w].listing) # {}
        /\ db = call[w].before

\* The names a row's image can be cached under: the row's name, which the
\* removals use, and the name the download step wrote.
CachedNames(r) == {r.name, ensure_extension(r.name, r.mime_type)}

RemovalFailureTolerated ==
    \A w \in Workers :
        (Returned(w, "sif") /\ LastResult(w).success)
        => \A r \in call[w].db_rows :
              r.id \notin Ids(call[w].listing) => r.id \notin Ids(db.images)

\* A row was deleted although its cached file, which no listed file shares,
\* is still on disk: its removal had raised.
RemovalFailureWitness ==
    \E w \in Workers :
        /\ Returned(w, "sif")
        /\ LastResult(w).success
        /\ \E r \in call[w].db_rows :
              /\ r.id \notin Ids(call[w].listing)
              /\ r.id \notin Ids(db.images)
              /\ r.name \in cache[call[w].folder]
              /\ \A f \in call[w].listing :
                    r.name \notin {f.name, ensure_extension(f.name, f.mimeType)}

\* C19: the answer of the sync/structure and sync/folder/{id} triggers never
\* has status success when the sync call behind it returned success False.
FailureVisible ==
    \A w \in Workers :
        (/\ pc[w] = "done"
         /\ run[w].op \in {"structure", "folder"}
         /\ ~LastResult(w).success)
        => trigger_response(run[w].op, LastResult(w)).status # "success"

\* C15: when a page request of fetch_all_files_from_drive failed, the
\* config_service sync of that folder computes no deletion from the pages
\* fetched so far and every row the folder had is still there.
CfgNoPartialDiff ==
    cfg.partial
    => /\ cfg.delete_list = <<>>
       /\ cfg.statements = <<>>
       /\ cfg.before \subseteq cfg.images[cfg.folder]

\* config_service.sync_images_in_folder has just returned its counts.
CfgReturned ==
    /\ cfg.pc = "loop"
    /\ cfg.folder # None
    /\ cfg.folder \notin cfg.raised

\* C18: when config_service.sync_images_in_folder returns, the n ids of
\* local minus remote were deleted by ceil(n / 1000) statements of at most
\* 1000 ids each, disjoint and covering the n ids, and none of them is left.
ChunkedDeletion ==
    CfgReturned
    => LET n == Len(cfg.delete_list)
           st == cfg.statements
       IN /\ Range(cfg.delete_list) = cfg.before \ cfg.drive_map
          /\ n = Cardinality(cfg.before \ cfg.drive_map)
          /\ Len(st) = (n + chunk_size - 1) \div chunk_size
          /\ \A j \in 1..Len(st) : Len(st[j]) >= 1 /\ Len(st[j]) <= chunk_size
          /\ \A j, k \in 1..Len(st) :
                j # k => Range(st[j]) \cap Range(st[k]) = {}
          /\ UNION {Range(st[j]) : j \in 1..Len(st)} = Range(cfg.delete_list)
          /\ \A g \in FolderIds : cfg.images[g] \cap Range(cfg.delete_list) = {}

\* More than two full chunks of ids were deleted, in three statements.
ChunkedDeletionWitness ==
    /\ CfgReturned
    /\ Len(cfg.delete_list) > 2 * chunk_size
    /\ Len(cfg.statements) = 3
    /\ Len(cfg.statements[3]) < chunk_size

\* C20: config_service.sync_all_folders returns one record for every folder
\* it iterated, and no folder's sync fails because an earlier folder's did.
CfgReportComplete ==
    cfg.pc = "done"
    => /\ Len(cfg.results) = Cardinality(cfg.folders)
       /\ ~cfg.induced

\* C21: in one sync_all_folders run the structure sync is the first call
\* and has returned success before any image sync begins; the image syncs
\* then visit, one after the other and once each, exactly the Folder rows
\* read after the structure sync, none of which it deleted.
OrchestrationOrder ==
    \A w \in Workers :
        (run[w].op = "all" /\ pc[w] # "stopped")
        => LET rs == run[w].results
               visited == {rs[k].scope : k \in 2..Len(rs)}
           IN /\ call[w].fn = "sif"
                   => (Len(rs) >= 1 /\ rs[1].success)
              /\ Len(rs) >= 1 => rs[1].scope = "structure"
              /\ \A k \in 2..Len(rs) : rs[k].scope \in run[w].folders
              /\ \A j, k \in 2..Len(rs) : rs[j].scope = rs[k].scope => j = k
              /\ visited \cap run[w].todo = {}
              /\ pc[w] \in {"sif_list", "sif_upsert", "sif_delete", "sif_download"}
                   => /\ call[w].folder \in run[w].folders
                      /\ call[w].folder \notin visited \cup run[w].todo
              /\ (Returned(w, "sfs") /\ rs[1].success)
                   => /\ run[w].folders = Ids(db.folders)
                      /\ run[w].folders \cap (Ids(call[w].before.folders)
                                                \ Ids(call[w].listing)) = {}
              /\ (pc[w] = "done" /\ Len(rs) >= 1 /\ rs[1].success)
                   => /\ visited = run[w].folders
                      /\ Len(rs) = 1 + Cardinality(run[w].folders)

\* A finished sync_all_folders run whose structure sync deleted a folder and
\* whose image syncs visited the folder that was left.
OrchestrationOrderWitness ==
    \E w \in Workers :
        /\ pc[w] = "done"
        /\ run[w].op = "all"
        /\ Len(run[w].results) = 2
        /\ run[w].results[1].success
        /\ run[w].results[1].deleted = 1
        /\ run[w].folders # {}

\* C22: in a sync_all_folders run the step that follows the return of one
\* folder's image sync is never the start of the next folder's image sync:
\* a pacing delay comes between the two.
Pacing ==
    [][\A w \in Workers :
         (run[w].op = "all" /\ pc[w] = "all_next" /\ call[w].fn = "sif")
         => pc'[w] # "sif_list"]_vars

\* C23: no scope is failed by a single failed page request of its listing:
\* a request that raised is tried again before the call gives up.
BoundedRetry ==
    \A w \in Workers :
        (/\ pc[w] \in {"done", "all_next"}
         /\ call[w].fn \in {"sfs", "sif"}
         /\ Len(run[w].results) > 0
         /\ ~LastResult(w).success)
        => call[w].failed # 1

\* C24: no step of sync_images_in_folder(F), in a call that succeeds or one
\* that fails, changes a Folder row or inserts, updates or deletes an Image
\* row of another folder.
ScopeFrame ==
    [][\A w \in Workers :
         pc[w] \in {"sif_list", "sif_upsert", "sif_delete", "sif_download"}
         => /\ db'.folders = db.folders
            /\ {r \in db'.images : r.folder_id # call[w].folder}
                 = {r \in db.images : r.folder_id # call[w].folder}]_vars

\* An image sync changed the rows of its folder while another folder had
\* rows of its own.
ScopeFrameWitness ==
    \E w \in Workers :
        /\ Returned(w, "sif")
        /\ LastResult(w).success
        /\ ImagesOf(db, call[w].folder) # ImagesOf(call[w].before, call[w].folder)
        /\ \E r \in db.images : r.folder_id # call[w].folder

CacheKeyConsistency ==
    \A w \in Workers :
        (/\ Returned(w, "sif")
         /\ LastResult(w).success
         /\ call[w].remove_failed = {}
         /\ call[w].blocked = {})
        => \A r \in call[w].db_rows :
              (/\ r.id \notin Ids(call[w].listing)
               /\ r.id \notin Ids(db.images))
              => \/ ensure_extension(r.name, r.mime_type) \notin cache[call[w].folder]
                 \/ \E f \in call[w].listing :
                       ensure_extension(r.name, r.mime_type)
                         \in {f.name, ensure_extension(f.name, f.mimeType)}

\* C27: when sync_folder_structure returns after a complete listing, having
\* met no failure of Drive or of the database connection, every folder that
\* had a FolderCaption row and is absent from the listing has been removed,
\* the call has succeeded, and no FolderCaption row is left without its
\* Folder.
CaptionedFolderDeletion ==
    \A w \in Workers :
        (/\ Returned(w, "sfs")
         /\ call[w].listing = ScopeRemote(w)
         /\ LastResult(w).error \in {"", "flush"})
        => \A f \in call[w].before.captions \ Ids(call[w].listing) :
              /\ LastResult(w).success
              /\ f \notin Ids(db.folders)
              /\ db.captions \subseteq Ids(db.folders)

\* The position of folder f's record in the results of a sync_all_folders run.
Pos(rs, f) == CHOOSE k \in 2..Len(rs) : rs[k].scope = f

\* C28: a sync_images_in_folder(B) whose listing holds an image that has a
\* row under another folder returns success False with the tables as they
\* were, so the row is neither re-parented nor doubled; and when a
\* sync_all_folders run against an unchanged remote has visited B before the
\* row's folder A and A's sync succeeded, the image has no row at the end of
\* the run.
MovedImage ==
    \A w \in Workers :
        /\ Returned(w, "sif")
             => \A f \in call[w].listing :
                   (\E r \in call[w].before.images :
                       r.id = f.id /\ r.folder_id # call[w].folder)
                   => /\ ~LastResult(w).success
                      /\ db = call[w].before
        /\ (pc[w] = "done" /\ run[w].op = "all" /\ run[w].clean
               /\ Len(run[w].results) > 0 /\ run[w].results[1].success)
             => \A r \in run[w].start.images, f \in remote.files :
                   (/\ f.id = r.id
                    /\ f.parent # r.folder_id
                    /\ {f.parent, r.folder_id} \subseteq run[w].folders
                    /\ Pos(run[w].results, f.parent) < Pos(run[w].results, r.folder_id)
                    /\ run[w].results[Pos(run[w].results, r.folder_id)].success)
                   => /\ ~run[w].results[Pos(run[w].results, f.parent)].success
                      /\ r.id \notin Ids(db.images)

\* A sync_all_folders run visited the folder an image was moved to before
\* the folder that had its row, failed there and deleted the row here.
MovedImageWitness ==
    \E w \in Workers :
        /\ pc[w] = "done"
        /\ run[w].op = "all"
        /\ run[w].clean
        /\ Len(run[w].results) = 3
        /\ run[w].results[1].success
        /\ run[w].results[2].error = "flush"
        /\ run[w].results[3].success
        /\ \E r \in run[w].start.images, f \in remote.files :
              /\ f.id = r.id
              /\ f.parent = run[w].results[2].scope
              /\ r.folder_id = run[w].results[3].scope
              /\ r.id \notin Ids(db.images)

\* C29: when the lookup of the root folder found nothing,
\* sync_folder_structure returns success False having requested no page of
\* child folders and with the tables and the cached files as they were, and
\* a sync_all_folders run ends there, with that one record and no image
\* sync.
MissingRootGuard ==
    \A w \in Workers :
        (/\ call[w].fn = "sfs"
         /\ Len(run[w].results) > 0
         /\ run[w].results[1].error = "not found"
         /\ pc[w] # "stopped")
        => /\ ~run[w].results[1].success
           /\ call[w].requests = 0
           /\ call[w].listing = {}
           /\ db = call[w].before
           /\ cache = call[w].before_cache
           /\ pc[w] = "done"
           /\ run[w].todo = {}
           /\ Len(run[w].results) = 1

\* A sync_all_folders run ended on the missing root while the Folder table
\* had folders with images to visit.
MissingRootWitness ==
    \E w \in Workers :
        /\ pc[w] = "done"
        /\ run[w].op = "all"
        /\ call[w].fn = "sfs"
        /\ Len(run[w].results) = 1
        /\ run[w].results[1].error = "not found"
        /\ db.folders # {}
        /\ db.images # {}

RECURSIVE SumUpsert(_), SumDelete(_)
\* The inserted and updated rows of the successful results of rs.
SumUpsert(rs) ==
    IF rs = <<>> THEN 0
    ELSE SumUpsert(Tail(rs))
           + (IF Head(rs).success THEN Head(rs).new + Head(rs).updated ELSE 0)

\* The deleted rows of the successful results of rs.
SumDelete(rs) ==
    IF rs = <<>> THEN 0
    ELSE SumDelete(Tail(rs)) + (IF Head(rs).success THEN Head(rs).deleted ELSE 0)

\* C30: when the loop of run_sync.main has ended, sync_images_in_folder was
\* called once for every folder of the Folder table, whatever failed on the
\* way, and the totals of the summary are the sums of the inserted or
\* updated and of the deleted counts of the syncs that succeeded.
RunSyncTotals ==
    \A w \in Workers :
        (pc[w] = "done" /\ run[w].op = "run_sync")
        => LET rs == run[w].results
           IN /\ Len(rs) = Cardinality(run[w].folders)
              /\ {rs[k].scope : k \in 1..Len(rs)} = run[w].folders
              /\ run[w].total_upsert = SumUpsert(rs)
              /\ run[w].total_delete = SumDelete(rs)

====
